---------------------------- MODULE Spec2Model ----------------------------
(***************************************************************************)
(* A model of the EDA narrator / data-quality scoring tool:                *)
(*   quality_scorer.QualityScorer, loader.DataLoader, narrator.Narrator,   *)
(*   eda_analyzer.NumericAnalyzer / CategoricalAnalyzer and                *)
(*   orchestrator.DatasetPipeline.                                         *)
(*                                                                         *)
(* Representation of Python values                                         *)
(*   dict      a function whose DOMAIN is the key set; {} is << >>         *)
(*   dict obj  a cell of `heap`, named by a reference (a positive number), *)
(*             so that two names for one dict are visible as one cell      *)
(*   None      the reference 0, or a record [type |-> "None"]              *)
(*   float     a weight w is the integer w * WUnit; a score s is the       *)
(*             integer s * ScoreUnit.  All inputs are chosen so that every *)
(*             quotient the code forms is exact in these units.            *)
(***************************************************************************)
EXTENDS Integers, FiniteSets, Sequences, TLC

VARIABLES
    \* ---- QualityScorer and its caller
    eda,        \* QualityScorer._eda
    df_len,     \* QualityScorer._df_len
    obj,        \* "none" | "live" | "failed": no scorer yet, constructed, __init__ raised
    heap,       \* the dict objects holding weights: reference -> dict
    weights,    \* QualityScorer._weights, a reference (0 before construction)
    held,       \* the caller's own weights mapping, a reference (0: none)
    scores,     \* QualityScorer.scores
    calls,      \* the component score methods the last operation invoked
    ret,        \* the number the last operation returned (NoRet: none)
    arg,        \* the weights argument of the last __init__ / set_weights call
    \* ---- shared by every component
    lastOp,     \* name of the last operation called
    lastErr,    \* the exception it raised (NoErr: it returned)
    \* ---- DataLoader
    file,       \* what read_csv(path) yields now: a table, or Unreadable
    sample_n,   \* DataLoader.sample_n
    df,         \* DataLoader.df (NoTable: None)
    everLoaded, \* history: some load() has returned
    result,     \* what the last load()/peek()/detect_types() returned
    seen,       \* history: what peek() and detect_types() returned since the last load
    \* ---- Narrator
    n_eda,      \* Narrator._eda
    n_scores,   \* Narrator._scores
    text,       \* what generate() returned
    \* ---- DatasetPipeline
    dataset,    \* the table at the pipeline's path
    pipeline    \* the DatasetPipeline object's attributes after run()

scorerVars == <<eda, df_len, obj, heap, weights, held, scores, calls, ret, arg>>
loaderVars == <<file, sample_n, df, everLoaded, result, seen>>
narratorVars == <<n_eda, n_scores, text>>
pipelineVars == <<dataset, pipeline>>
vars == <<scorerVars, loaderVars, narratorVars, pipelineVars, lastOp, lastErr>>

---------------------------------------------------------------------------
(* Bounds of the model *)

MaxDup == 1         \* eda['duplicates'] ranges over 0..MaxDup
MaxOut == 1         \* each eda['outliers'][col] ranges over 0..MaxOut
MaxRows == 1        \* df_len ranges over 0..MaxRows
MaxTableRows == 2   \* a CSV file holds at most MaxTableRows data rows
MaxLen == 2         \* a pipeline dataset holds 1..MaxLen rows

Cols == {"a", "b"}  \* column names of the EDA inputs
PctVals == {0, 50}  \* the values of eda['missing'][col]['pct']

---------------------------------------------------------------------------
(* Units *)

RECURSIVE Fact(_)
Fact(n) == IF n <= 1 THEN 1 ELSE n * Fact(n - 1)

WUnit == 100000     \* the integer that stands for the weight 1.0
\* the integer that stands for one score point, per unit of weight: every
\* mean over at most |Cols| columns and every ratio over at most MaxRows + 1
\* rows is exact.
SUnit == Fact(MaxRows + 1) * Fact(Cardinality(Cols))
ScoreUnit == SUnit * WUnit   \* the integer that stands for the score 1.0

Max2(a, b) == IF a >= b THEN a ELSE b     \* Python max(a, b)

NoErr == [type |-> "None"]
NoRet == -1

RECURSIVE SumOver(_, _)
\* sum(d.values()) of a dict of numbers
SumVals(d) == SumOver(d, DOMAIN d)
SumOver(d, S) ==
    IF S = {} THEN 0
    ELSE LET k == CHOOSE x \in S : TRUE IN d[k] + SumOver(d, S \ {k})

EmptyDict == << >>
\* d[k] = v
SetItem(d, k, v) == [x \in DOMAIN d \cup {k} |-> IF x = k THEN v ELSE d[x]]
\* del d[k]
DelItem(d, k) == [x \in DOMAIN d \ {k} |-> d[x]]

---------------------------------------------------------------------------
(* quality_scorer.py *)

METRICS == <<"missing", "duplicates", "outliers", "balance">>
MetricSet == {METRICS[i] : i \in 1..Len(METRICS)}

DEFAULT_WEIGHTS ==
    [missing |-> 35000, duplicates |-> 15000, outliers |-> 25000, balance |-> 25000]

TOL_LO == 99000     \* 0.99
TOL_HI == 101000    \* 1.01

\* f"{weight_sum:.4f}": the sum rounded to four decimals, in units of 0.0001
Fmt4(x) == IF x >= 0 THEN (x + 5) \div 10 ELSE 0 - ((5 - x) \div 10)

\* _validate_weights with the negative-value check moved before the sum check
_validate_weights_negative_first(w) ==
    IF DOMAIN w # {"missing", "duplicates", "outliers", "balance"}
    THEN [type |-> "ValueError", kind |-> "keys",
          missing |-> {"missing", "duplicates", "outliers", "balance"} \ DOMAIN w,
          extra |-> DOMAIN w \ {"missing", "duplicates", "outliers", "balance"}]
    ELSE IF \E k \in DOMAIN w : w[k] < 0
    THEN [type |-> "ValueError", kind |-> "negative"]
    ELSE IF ~(TOL_LO <= SumVals(w) /\ SumVals(w) <= TOL_HI)
    THEN [type |-> "ValueError", kind |-> "sum", shown |-> Fmt4(SumVals(w)), provided |-> w]
    ELSE NoErr

\* _validate_weights: the ValueError it raises, or NoErr
_validate_weights(w) ==
    LET required_keys == DOMAIN DEFAULT_WEIGHTS
        provided_keys == DOMAIN w
        weight_sum == SumVals(w)
    IN  IF provided_keys # required_keys
        THEN [type |-> "ValueError", kind |-> "keys",
              missing |-> required_keys \ provided_keys,
              extra |-> provided_keys \ required_keys]
        ELSE IF ~(TOL_LO <= weight_sum /\ weight_sum <= TOL_HI)
        THEN [type |-> "ValueError", kind |-> "sum",
              shown |-> Fmt4(weight_sum), provided |-> w]
        ELSE IF \E k \in DOMAIN w : w[k] < 0
        THEN [type |-> "ValueError", kind |-> "negative"]
        ELSE NoErr

\* a fresh reference
Alloc(h) ==
    CHOOSE r \in 1..(Cardinality(DOMAIN h) + 1) :
        r \notin DOMAIN h /\ \A q \in 1..(r - 1) : q \in DOMAIN h

\* h with a new dict object holding d; the object is .ref
NewObj(h, d) ==
    LET r == Alloc(h) IN [heap |-> [x \in DOMAIN h \cup {r} |-> IF x = r THEN d ELSE h[x]],
                          ref |-> r]

\* weights.copy() left out: the same object under a second name
CopyAlias(h, r) == [heap |-> h, ref |-> r]

\* dict.copy(): a new object with the same items
Copy(h, r) == NewObj(h, h[r])

\* the objects still referenced
Collect(h, roots) == [x \in DOMAIN h \cap roots |-> h[x]]

\* missing_score
MissingValue(e) ==
    LET missing == IF "missing" \in DOMAIN e THEN e["missing"] ELSE EmptyDict
        n == IF missing # EmptyDict THEN Cardinality(DOMAIN missing) ELSE 1
        total == IF missing # EmptyDict
                 THEN SumVals([c \in DOMAIN missing |-> missing[c].pct])
                 ELSE 0
    IN  Max2(0, 100 * ScoreUnit - (total * ScoreUnit) \div n)

\* duplicates_score
DuplicatesValue(e, n) ==
    LET dups == IF "duplicates" \in DOMAIN e THEN e["duplicates"] ELSE 0
        pct == (dups * 100 * ScoreUnit) \div Max2(1, n)
    IN  Max2(0, 100 * ScoreUnit - pct * 2)

\* outliers_score
OutliersValue(e, n) ==
    LET out == IF "outliers" \in DOMAIN e THEN e["outliers"] ELSE EmptyDict
        total == IF out # EmptyDict THEN SumVals(out) ELSE 0
        pct == (total * 100 * ScoreUnit) \div Max2(1, n)
    IN  Max2(0, 100 * ScoreUnit - (pct * 3) \div 2)

\* balance_score returning the fraction 0.9 for the percentage 90.0
BalanceFraction == (9 * ScoreUnit) \div 10

\* balance_score
BalanceValue == 90 * ScoreUnit

\* getattr(self, f"{metric}_score")(): the value the method stores and returns
MetricValue(m, e, n) ==
    CASE m = "missing" -> MissingValue(e)
      [] m = "duplicates" -> DuplicatesValue(e, n)
      [] m = "outliers" -> OutliersValue(e, n)
      [] m = "balance" -> BalanceValue

\* sum(self.scores[m] * self._weights[m] for m in self._weights.keys())
WeightedSum(s, w) == SumVals([m \in DOMAIN w |-> (s[m] \div WUnit) * w[m]])

\* the loop of overall_score from its i-th metric on: [scores, called]
RECURSIVE EnsureFrom(_, _, _, _, _)
NeedsComputeAlways(s, m) == TRUE               \* the membership test left out
NeedsCompute(s, m) == m \notin DOMAIN s      \* if metric not in self.scores
EnsureFrom(i, s, called, e, n) ==
    IF i > Len(METRICS) THEN [scores |-> s, called |-> called]
    ELSE LET m == METRICS[i] IN
         IF NeedsCompute(s, m)
         THEN EnsureFrom(i + 1, SetItem(s, m, MetricValue(m, e, n)), called \cup {m}, e, n)
         ELSE EnsureFrom(i + 1, s, called, e, n)

\* overall_score: [scores, called, ret]
overall_score(s, w, e, n) ==
    LET l == EnsureFrom(1, s, {}, e, n)
        v == WeightedSum(l.scores, w)
    IN  [scores |-> SetItem(l.scores, "overall", v), called |-> l.called, ret |-> v]

\* set_weights without its recalculation
RecalculateSkipped(s, w, e, n) == [scores |-> s, called |-> {}]

\* the tail of set_weights: [scores, called]
Recalculate(s, w, e, n) ==
    IF "overall" \in DOMAIN s
    THEN LET o == overall_score(s, w, e, n) IN [scores |-> o.scores, called |-> o.called]
    ELSE [scores |-> s, called |-> {}]

\* set_weights assigning the weights before it validates them
set_weights_assign_first(h, wref, s, e, n, r) ==
    LET err == _validate_weights(h[r])
        c == Copy(h, r)
    IN  IF err.type # "None"
        THEN [heap |-> c.heap, weights |-> c.ref, scores |-> s, called |-> {}, err |-> err]
        ELSE [heap |-> c.heap, weights |-> c.ref,
              scores |-> Recalculate(s, c.heap[c.ref], e, n).scores,
              called |-> Recalculate(s, c.heap[c.ref], e, n).called, err |-> NoErr]

\* set_weights(r) on heap h: [heap, weights, scores, called, err]
set_weights(h, wref, s, e, n, r) ==
    LET err == _validate_weights(h[r]) IN
    IF err.type # "None"
    THEN [heap |-> h, weights |-> wref, scores |-> s, called |-> {}, err |-> err]
    ELSE LET c == Copy(h, r)
             rc == Recalculate(s, c.heap[c.ref], e, n)
         IN  [heap |-> c.heap, weights |-> c.ref, scores |-> rc.scores,
              called |-> rc.called, err |-> NoErr]

\* __init__(eda_results, df_len, weights=r) on heap h (r = 0: None):
\* [heap, weights, scores, err]
init_scorer(h, r) ==
    IF r = 0
    THEN LET c == NewObj(h, DEFAULT_WEIGHTS)
         IN  [heap |-> c.heap, weights |-> c.ref, scores |-> EmptyDict, err |-> NoErr]
    ELSE LET err == _validate_weights(h[r]) IN
         IF err.type # "None"
         THEN [heap |-> h, weights |-> 0, scores |-> EmptyDict, err |-> err]
         ELSE LET c == Copy(h, r)
              IN  [heap |-> c.heap, weights |-> c.ref, scores |-> EmptyDict, err |-> NoErr]

ActiveWeights == heap[weights]      \* get_weights(), as a value

---------------------------------------------------------------------------
(* The inputs *)

\* every dict with keys in K and values in V
DictsOver(K, V) == UNION {[S -> V] : S \in SUBSET K}

MissingInfo == {[missing |-> IF p = 0 THEN 0 ELSE 1, pct |-> p] : p \in PctVals}

\* The EDA results a caller may hand to the scorer.  Each component score
\* reads its own key and nothing else, so the inputs vary one key at a time;
\* the last set holds all three keys at once.
EdaInputs ==
    {EmptyDict}
    \cup {[missing |-> mi] : mi \in DictsOver(Cols, MissingInfo)}
    \cup {[duplicates |-> du] : du \in 0..MaxDup}
    \cup {[outliers |-> ou] : ou \in DictsOver(Cols, 0..MaxOut)}
    \cup {[missing |-> [c \in Cols |-> [missing |-> 1, pct |-> p]],
           duplicates |-> du,
           outliers |-> [c \in Cols |-> ou]]
            : p \in PctVals \ {0}, du \in {0, MaxDup}, ou \in {0, MaxOut}}

W4(a, b, c, d) == [missing |-> a, duplicates |-> b, outliers |-> c, balance |-> d]

\* the dict literals a caller passes as weights
LiteralWeights ==
    { W4(25000, 25000, 25000, 25000),
      W4(51000, 25000, 25000, 0),
      W4(25000, 25000, 0, 0),
      W4(51000, 25000, 25000, -996),
      DelItem(W4(25000, 25000, 25000, 25000), "balance"),
      SetItem(W4(25000, 25000, 25000, 25000), "extra", 0) }

\* the keys and values a caller stores in a weights mapping of its own
HeldKeys == MetricSet \cup {"extra"}
WeightVals == {-996, 25000, 51000}

NoArg == [given |-> FALSE]
Given(w) == [given |-> TRUE, value |-> w]

---------------------------------------------------------------------------
(* QualityScorer: the calls *)

IdleLoader == file = [ok |-> FALSE] /\ sample_n = 0 /\ df = [ok |-> FALSE]
                /\ everLoaded = FALSE /\ result = [type |-> "None"]
                /\ seen = [peek |-> [type |-> "None"], detect_types |-> [type |-> "None"]]
IdleNarrator == n_eda = EmptyDict /\ n_scores = EmptyDict /\ text = << >>
IdlePipeline == dataset = [ok |-> FALSE] /\ pipeline = [state |-> "new"]
IdleScorer == eda = EmptyDict /\ df_len = 0 /\ obj = "none" /\ heap = EmptyDict
                /\ weights = 0 /\ held = 0 /\ scores = EmptyDict /\ calls = {}
                /\ ret = NoRet /\ arg = NoArg

otherVars == <<loaderVars, narratorVars, pipelineVars>>

\* QualityScorer(eda, df_len, weights=r), the heap being h
Construct(h, r) ==
    /\ obj # "live"
    /\ \E o \in {init_scorer(h, r)} :
        /\ obj' = IF o.err.type = "None" THEN "live" ELSE "failed"
        /\ heap' = Collect(o.heap, {o.weights, held})
        /\ weights' = o.weights
        /\ scores' = o.scores
        /\ calls' = {}
        /\ ret' = NoRet
        /\ arg' = IF r = 0 THEN NoArg ELSE Given(h[r])
        /\ lastOp' = "init"
        /\ lastErr' = o.err
        /\ UNCHANGED <<eda, df_len, held, otherVars>>

\* QualityScorer(eda, df_len)
NewScorerDefault == Construct(heap, 0)

\* QualityScorer(eda, df_len, weights={...})
NewScorerLiteral ==
    \E W \in LiteralWeights : \E a \in {NewObj(heap, W)} : Construct(a.heap, a.ref)

\* QualityScorer(eda, df_len, weights=held)
NewScorerHeld == held # 0 /\ Construct(heap, held)

\* scorer.set_weights(r), the heap being h
SetWeights(h, r) ==
    /\ obj = "live"
    /\ \E o \in {set_weights(h, weights, scores, eda, df_len, r)} :
        /\ heap' = Collect(o.heap, {o.weights, held})
        /\ weights' = o.weights
        /\ scores' = o.scores
        /\ calls' = o.called
        /\ ret' = NoRet
        /\ arg' = Given(h[r])
        /\ lastOp' = "set_weights"
        /\ lastErr' = o.err
        /\ UNCHANGED <<eda, df_len, obj, held, otherVars>>

\* scorer.set_weights({...})
SetWeightsLiteral ==
    \E W \in LiteralWeights : \E a \in {NewObj(heap, W)} : SetWeights(a.heap, a.ref)

\* scorer.set_weights(held)
SetWeightsHeld == held # 0 /\ SetWeights(heap, held)

\* held = scorer.get_weights()
GetWeights ==
    /\ obj = "live"
    /\ \E c \in {Copy(heap, weights)} :
        /\ held' = c.ref
        /\ heap' = Collect(c.heap, {weights, c.ref})
        /\ calls' = {}
        /\ ret' = NoRet
        /\ arg' = NoArg
        /\ lastOp' = "get_weights"
        /\ lastErr' = NoErr
        /\ UNCHANGED <<eda, df_len, obj, weights, scores, otherVars>>

\* what a caller's own statement leaves of the scorer's bookkeeping
CallerStep(op) ==
    /\ calls' = {}
    /\ ret' = NoRet
    /\ arg' = NoArg
    /\ lastOp' = op
    /\ lastErr' = NoErr
    /\ UNCHANGED <<eda, df_len, obj, weights, scores, otherVars>>

\* held = {}
HeldNew ==
    \E a \in {NewObj(Collect(heap, {weights}), EmptyDict)} :
        /\ held' = a.ref
        /\ heap' = a.heap
        /\ CallerStep("new_dict")

\* held[k] = v
HeldSetItem ==
    \E k \in HeldKeys, v \in WeightVals :
        /\ held # 0
        /\ heap' = [heap EXCEPT ![held] = SetItem(@, k, v)]
        /\ held' = held
        /\ CallerStep("setitem")

\* del held[k]
HeldDelItem ==
    \E k \in HeldKeys :
        /\ held # 0
        /\ k \in DOMAIN heap[held]
        /\ heap' = [heap EXCEPT ![held] = DelItem(@, k)]
        /\ held' = held
        /\ CallerStep("delitem")

\* scorer.missing_score(), .duplicates_score(), .outliers_score(), .balance_score()
ComponentScore ==
    /\ obj = "live"
    /\ \E m \in MetricSet : \E v \in {MetricValue(m, eda, df_len)} :
        /\ scores' = SetItem(scores, m, v)
        /\ calls' = {m}
        /\ ret' = v
        /\ arg' = NoArg
        /\ lastOp' = m
        /\ lastErr' = NoErr
        /\ UNCHANGED <<eda, df_len, obj, heap, weights, held, otherVars>>

\* scorer.overall_score()
OverallScore ==
    /\ obj = "live"
    /\ \E o \in {overall_score(scores, ActiveWeights, eda, df_len)} :
        /\ scores' = o.scores
        /\ calls' = o.called
        /\ ret' = o.ret
        /\ arg' = NoArg
        /\ lastOp' = "overall_score"
        /\ lastErr' = NoErr
        /\ UNCHANGED <<eda, df_len, obj, heap, weights, held, otherVars>>

\* ---- the scorer, called with default weights and with dict literals
Init ==
    /\ eda \in EdaInputs
    /\ df_len \in 0..MaxRows
    /\ obj = "none" /\ heap = EmptyDict /\ weights = 0 /\ held = 0
    /\ scores = EmptyDict /\ calls = {} /\ ret = NoRet /\ arg = NoArg
    /\ lastOp = "none" /\ lastErr = NoErr
    /\ IdleLoader /\ IdleNarrator /\ IdlePipeline

Next ==
    \/ NewScorerDefault
    \/ NewScorerLiteral
    \/ SetWeightsLiteral
    \/ ComponentScore
    \/ OverallScore

Spec == Init /\ [][Next]_vars

\* ---- the scorer and a caller that keeps and changes a weights mapping
InitWeights ==
    /\ IdleScorer
    /\ lastOp = "none" /\ lastErr = NoErr
    /\ IdleLoader /\ IdleNarrator /\ IdlePipeline

NextWeights ==
    \/ HeldNew
    \/ HeldSetItem
    \/ HeldDelItem
    \/ NewScorerDefault
    \/ NewScorerHeld
    \/ SetWeightsHeld
    \/ GetWeights
    \/ OverallScore

SpecWeights == InitWeights /\ [][NextWeights]_vars

---------------------------------------------------------------------------
(* loader.py *)

NoTable == [ok |-> FALSE]           \* self.df = None; a path read_csv cannot read
NoResult == [type |-> "None"]
NoneSeen == [peek |-> NoResult, detect_types |-> NoResult]

RowVals == {1, 2}                   \* the distinct rows a file may hold
DTypes == {"int64", "object"}
SampleNs == {-1, 0, 1, 5}           \* sample_n; 5 is the default

RECURSIVE SeqsUpTo(_, _)
\* the sequences over S of length at most n
SeqsUpTo(S, n) ==
    IF n = 0 THEN {<< >>}
    ELSE LET shorter == SeqsUpTo(S, n - 1)
         IN  shorter \cup {Append(q, x) : q \in {t \in shorter : Len(t) = n - 1}, x \in S}

\* the tables pd.read_csv may return
Tables ==
    {[ok |-> TRUE, dtypes |-> [c \in {"a"} |-> t], rows |-> r]
        : t \in DTypes, r \in SeqsUpTo(RowVals, MaxTableRows)}

FileStates == Tables \cup {NoTable}

\* DataFrame.head(n)
head(t, n) ==
    LET len == Len(t.rows)
        k == IF n >= 0 THEN (IF n < len THEN n ELSE len)
                       ELSE (IF len + n > 0 THEN len + n ELSE 0)
    IN  [type |-> "DataFrame", dtypes |-> t.dtypes, rows |-> SubSeq(t.rows, 1, k)]

\* load() that clears self.df before it reads
LoadedDfCleared(f, d) == IF f.ok THEN f ELSE NoTable

\* self.df after load(): read_csv raises before the assignment
LoadedDf(f, d) == IF f.ok THEN f ELSE d

\* the df is None test of peek() and detect_types()
NotLoaded(d) == ~d.ok

\* the file at self.path is rewritten, removed or made unreadable
FileChanges ==
    /\ file' \in FileStates \ {file}
    /\ lastOp' = "file_changes"
    /\ lastErr' = NoErr
    /\ UNCHANGED <<sample_n, df, everLoaded, result, seen,
                   scorerVars, narratorVars, pipelineVars>>

\* loader.load()
Load ==
    /\ df' = LoadedDf(file, df)
    /\ everLoaded' = (everLoaded \/ file.ok)
    /\ result' = IF file.ok THEN [type |-> "DataFrame", dtypes |-> file.dtypes,
                                  rows |-> file.rows]
                            ELSE NoResult
    /\ seen' = IF file.ok THEN NoneSeen ELSE seen
    /\ lastOp' = "load"
    /\ lastErr' = IF file.ok THEN NoErr ELSE [type |-> "ReadError"]
    /\ UNCHANGED <<file, sample_n, scorerVars, narratorVars, pipelineVars>>

\* a call of an accessor: it raises RuntimeError or returns value
Accessor(op, value) ==
    /\ lastOp' = op
    /\ lastErr' = IF NotLoaded(df) THEN [type |-> "RuntimeError"] ELSE NoErr
    /\ result' = IF NotLoaded(df) THEN NoResult ELSE value
    /\ seen' = IF NotLoaded(df) THEN seen ELSE [seen EXCEPT ![op] = value]
    /\ UNCHANGED <<file, sample_n, df, everLoaded,
                   scorerVars, narratorVars, pipelineVars>>

\* loader.peek()
Peek == \E v \in {IF NotLoaded(df) THEN NoResult ELSE head(df, sample_n)} :
            Accessor("peek", v)

\* loader.detect_types()
DetectTypes ==
    \E v \in {IF NotLoaded(df) THEN NoResult ELSE [type |-> "dict", items |-> df.dtypes]} :
        Accessor("detect_types", v)

InitLoader ==
    /\ file \in FileStates
    /\ sample_n \in SampleNs
    /\ df = NoTable /\ everLoaded = FALSE /\ result = NoResult /\ seen = NoneSeen
    /\ lastOp = "none" /\ lastErr = NoErr
    /\ IdleScorer /\ IdleNarrator /\ IdlePipeline

NextLoader == FileChanges \/ Load \/ Peek \/ DetectTypes

SpecLoader == InitLoader /\ [][NextLoader]_vars

---------------------------------------------------------------------------
(* narrator.py *)

ColSeq == <<"a", "b">>          \* the order in which the dicts hold the columns
NUnit == 1000                   \* the integer that stands for the score 1.0

\* the verdict of generate for the score `overall`, one score point being `unit`
VerdictStrict(overall, unit) ==     \* the bands compared with > for >=
    IF overall > 90 * unit THEN "Excellent"
    ELSE IF overall > 75 * unit THEN "Good"
    ELSE IF overall > 50 * unit THEN "Fair"
    ELSE "Poor"

Verdict(overall, unit) ==
    IF overall >= 90 * unit THEN "Excellent"
    ELSE IF overall >= 75 * unit THEN "Good"
    ELSE IF overall >= 50 * unit THEN "Fair"
    ELSE "Poor"

\* f"{x:.2f}": x rounded to hundredths, in hundredths
Fmt2(x, unit) == (x + unit \div 200) \div (unit \div 100)

\* e.get(k, {})
GetDict(e, k) == IF k \in DOMAIN e THEN e[k] ELSE EmptyDict

RECURSIVE Sentences(_, _, _)
\* the sentences one loop of generate appends, from the i-th column on
Sentences(kind, d, i) ==
    IF i > Len(ColSeq) THEN << >>
    ELSE LET col == ColSeq[i]
             rest == Sentences(kind, d, i + 1)
         IN  IF col \notin DOMAIN d THEN rest
             ELSE CASE kind = "summary" ->
                        IF "mean" \in DOMAIN d[col]
                        THEN <<[kind |-> "summary", col |-> col,
                                mean |-> d[col]["mean"], std |-> d[col]["std"]]>> \o rest
                        ELSE rest
                    [] kind = "missing" ->
                        IF d[col]["missing"] > 0
                        THEN <<[kind |-> "missing", col |-> col,
                                missing |-> d[col]["missing"], pct |-> d[col]["pct"]]>> \o rest
                        ELSE rest
                    [] kind = "outliers" ->
                        IF d[col] > 0
                        THEN <<[kind |-> "outliers", col |-> col, n |-> d[col]]>> \o rest
                        ELSE rest

\* Narrator.generate
generate(e, sc, unit) ==
    LET overall == IF "overall" \in DOMAIN sc THEN sc["overall"] ELSE 0
    IN  Sentences("summary", GetDict(e, "summary"), 1)
        \o Sentences("missing", GetDict(e, "missing"), 1)
        \o Sentences("outliers", GetDict(e, "outliers"), 1)
        \o <<[kind |-> "overall", shown |-> Fmt2(overall, unit),
              verdict |-> Verdict(overall, unit)]>>

\* what describe() gives for a numeric and for a textual column
NumericStats == [count |-> 2, mean |-> 150, std |-> 71]
TextStats == [count |-> 2, unique |-> 2, top |-> "x", freq |-> 1]

\* the EDA results a Narrator may be given
NarratorEdas ==
    {[k \in ks |-> CASE k = "summary" -> su [] k = "missing" -> mi [] k = "outliers" -> ou]
        : ks \in SUBSET {"summary", "missing", "outliers"},
          su \in DictsOver({"a"}, {NumericStats, TextStats}),
          mi \in DictsOver(Cols, MissingInfo),
          ou \in DictsOver({"a"}, 0..MaxOut)}

\* the overall scores a Narrator may be given, in thousandths
OverallVals ==
    {0, 30000, 49999, 50000, 60000, 74999, 75000, 80000, 89996, 90000, 95000, 100000}

NarratorScores == {EmptyDict} \cup {[overall |-> v] : v \in OverallVals}

\* narrator.generate()
Generate ==
    /\ text' = generate(n_eda, n_scores, NUnit)
    /\ lastOp' = "generate"
    /\ lastErr' = NoErr
    /\ UNCHANGED <<n_eda, n_scores, scorerVars, loaderVars, pipelineVars>>

InitNarrator ==
    /\ n_eda \in NarratorEdas
    /\ n_scores \in NarratorScores
    /\ text = << >>
    /\ lastOp = "narrator" /\ lastErr = NoErr
    /\ IdleScorer /\ IdleLoader /\ IdlePipeline

NextNarrator == Generate

SpecNarrator == InitNarrator /\ [][NextNarrator]_vars

---------------------------------------------------------------------------
(* eda_analyzer.py, orchestrator.py *)

TextVals == {"x", " x"}
Trim(v) == IF v = " x" THEN "x" ELSE v          \* str.strip()

\* the columns a CSV of n rows may hold: numeric ones, given by the statistics
\* describe() computes for them; textual ones, given by their values; others
NumericColumns(n) ==
    {[dtype |-> "number", stats |-> [count |-> n, mean |-> m, std |-> 71]] : m \in {150, 300}}
ObjectColumns(n) == {[dtype |-> "object", values |-> v] : v \in [1..n -> TextVals]}
OtherColumns == {[dtype |-> "bool"]}

\* the tables at the pipeline's path, and a path that cannot be read
TablesOfLen(n) ==
    {[ok |-> TRUE, len |-> n, cols |-> cs]
        : cs \in {d \in DictsOver(Cols, NumericColumns(n) \cup ObjectColumns(n) \cup OtherColumns)
                    : d # EmptyDict}}

Datasets == {[ok |-> FALSE]} \cup UNION {TablesOfLen(n) : n \in 1..MaxLen}

\* Preprocessor(df).trim_strings(textual columns).get_df()
trim_strings(t) ==
    [t EXCEPT !.cols = [c \in DOMAIN t.cols |->
        IF t.cols[c].dtype = "object"
        THEN [t.cols[c] EXCEPT !.values = [i \in DOMAIN t.cols[c].values |->
                                              Trim(t.cols[c].values[i])]]
        ELSE t.cols[c]]]

\* df.select_dtypes(include=...): the columns of that dtype
select_dtypes(t, dtype) == {c \in DOMAIN t.cols : t.cols[c].dtype = dtype}

Occurrences(v, x) == Cardinality({i \in DOMAIN v : v[i] = x})

\* describe(include='all') of one textual column
TextDescribe(v) ==
    LET vals == {v[i] : i \in DOMAIN v}
        best == CHOOSE i \in DOMAIN v :
                    /\ \A j \in DOMAIN v : Occurrences(v, v[j]) <= Occurrences(v, v[i])
                    /\ \A j \in 1..(i - 1) : Occurrences(v, v[j]) < Occurrences(v, v[i])
    IN  [count |-> Len(v), unique |-> Cardinality(vals), top |-> v[best],
         freq |-> Occurrences(v, v[best])]

\* DataFrame.describe().to_dict() of the columns cs, which raises
\* ValueError("Cannot describe a DataFrame without columns") when cs is empty
Describe(t, cs) ==
    IF cs = {} THEN [err |-> [type |-> "ValueError", kind |-> "describe"]]
    ELSE [err |-> NoErr,
          summary |-> [c \in cs |-> IF t.cols[c].dtype = "number"
                                    THEN t.cols[c].stats
                                    ELSE TextDescribe(t.cols[c].values)]]

\* NumericAnalyzer.run_all / CategoricalAnalyzer.run_all: [err, results]
run_all(t, dtype) ==
    LET d == Describe(t, select_dtypes(t, dtype))
    IN  IF d.err.type # "None" THEN [err |-> d.err]
        ELSE [err |-> NoErr, results |-> [summary |-> d.summary]]

\* {**d1, **d2}
DictMerge(d1, d2) ==
    [k \in DOMAIN d1 \cup DOMAIN d2 |-> IF k \in DOMAIN d2 THEN d2[k] ELSE d1[k]]

\* ReportBuilder(narrative, scores, eda_results).to_markdown()
to_markdown(narrative, sc, e) == [narrative |-> narrative, scores |-> sc, eda |-> e]

Failed(at, err) == [state |-> "failed", at |-> at, err |-> err]

\* DatasetPipeline.run: the pipeline's attributes when it returns or raises
run(ds) ==
    IF ~ds.ok THEN Failed("load", [type |-> "ReadError"])
    ELSE
    LET df_clean == trim_strings(ds)
        num == run_all(df_clean, "number")
        cat == run_all(df_clean, "object")
    IN  IF num.err.type # "None" THEN Failed("numeric", num.err)
        ELSE IF cat.err.type # "None" THEN Failed("categorical", cat.err)
        ELSE
        LET eda_results == DictMerge(num.results, cat.results)
            scorer == init_scorer(EmptyDict, 0)
            o == overall_score(scorer.scores, scorer.heap[scorer.weights],
                               eda_results, df_clean.len)
            narrative == generate(eda_results, o.scores, ScoreUnit)
        IN  [state |-> "done",
             eda_results |-> eda_results,
             scores |-> o.scores,
             narrative |-> narrative,
             report |-> to_markdown(narrative, o.scores, eda_results)]

\* pipeline.run()
Run ==
    /\ pipeline.state = "new"
    /\ \E p \in {run(dataset)} :
        /\ pipeline' = p
        /\ lastOp' = "run"
        /\ lastErr' = IF p.state = "failed" THEN p.err ELSE NoErr
    /\ UNCHANGED <<dataset, scorerVars, loaderVars, narratorVars>>

InitPipeline ==
    /\ dataset \in Datasets
    /\ pipeline = [state |-> "new"]
    /\ lastOp = "none" /\ lastErr = NoErr
    /\ IdleScorer /\ IdleLoader /\ IdleNarrator

NextPipeline == Run

SpecPipeline == InitPipeline /\ [][NextPipeline]_vars

---------------------------------------------------------------------------
(* Properties of QualityScorer *)

InTolerance(x) == TOL_LO <= x /\ x <= TOL_HI
Points(n) == n * ScoreUnit                       \* the score n

\* C1: whenever scores holds 'overall', its value is the sum over the four
\* metrics of scores[m] * weights[m], with the weights get_weights() returns
\* now; a successful set_weights needs no further call for that.
C1_OverallFollowsWeights ==
    (obj = "live" /\ "overall" \in DOMAIN scores) =>
        scores["overall"] =
              (scores["missing"] \div WUnit) * ActiveWeights["missing"]
            + (scores["duplicates"] \div WUnit) * ActiveWeights["duplicates"]
            + (scores["outliers"] \div WUnit) * ActiveWeights["outliers"]
            + (scores["balance"] \div WUnit) * ActiveWeights["balance"]

\* a set_weights that succeeded after overall_score, and changed the overall score
C1_Witness ==
    /\ obj = "live" /\ lastOp = "set_weights" /\ lastErr.type = "None"
    /\ "overall" \in DOMAIN scores
    /\ ActiveWeights # DEFAULT_WEIGHTS
    /\ scores["overall"] # WeightedSum(scores, DEFAULT_WEIGHTS)

\* C2: a set_weights that fails with ValueError leaves the scores mapping and
\* the active weights as they were; a construction that fails has computed
\* no score.
C2_FailureTouchesNothing ==
    /\ [][(lastOp' = "set_weights" /\ lastErr'.type = "ValueError") =>
              (scores' = scores /\ heap'[weights'] = heap[weights])]_vars
    /\ []((lastOp = "init" /\ lastErr.type = "ValueError") =>
              (obj = "failed" /\ scores = EmptyDict /\ calls = {}))

\* a failed set_weights on a scorer that holds an overall score
C2_Witness ==
    /\ lastOp = "set_weights" /\ lastErr.type = "ValueError"
    /\ "overall" \in DOMAIN scores

\* C3: with non-negative EDA inputs and any accepted weights, the overall
\* score stored and returned lies in [0, 100].
C3_OverallInRange ==
    (obj = "live" /\ "overall" \in DOMAIN scores) =>
        /\ 0 <= scores["overall"] /\ scores["overall"] <= Points(100)
        /\ lastOp = "overall_score" => (0 <= ret /\ ret <= Points(100))

\* C4: the active weights always have exactly the four metric keys, no
\* negative value and a sum within [0.99, 1.01], whatever the caller does to
\* the mapping it passed in or to one get_weights() returned.
C4_ActiveWeightsValid ==
    obj = "live" =>
        /\ DOMAIN ActiveWeights = {"missing", "duplicates", "outliers", "balance"}
        /\ \A k \in DOMAIN ActiveWeights : ActiveWeights[k] >= 0
        /\ InTolerance(SumVals(ActiveWeights))

\* the caller's mapping, once accepted, was changed into an invalid one
C4_Witness ==
    /\ obj = "live" /\ held # 0
    /\ lastOp \in {"setitem", "delitem"}
    /\ ActiveWeights = W4(25000, 25000, 25000, 25000)
    /\ _validate_weights(heap[held]).type = "ValueError"

\* C5, as claimed: any weights whose sum is outside [0.99, 1.01] make
\* construction and set_weights fail with a ValueError naming that sum,
\* whatever else is wrong with the mapping.
C5_SumAlwaysNamed ==
    (lastOp \in {"init", "set_weights"} /\ arg.given /\ ~InTolerance(SumVals(arg.value))) =>
        /\ lastErr.type = "ValueError"
        /\ lastErr.kind = "sum"
        /\ lastErr.shown * 10 = SumVals(arg.value)

\* C5, amended: with exactly the four keys and a sum outside [0.99, 1.01] the
\* ValueError names the sum rounded to four decimals, negative values or
\* not; with another key set it names the missing and extra keys instead.
C5_SumNamedForFourKeys ==
    (lastOp \in {"init", "set_weights"} /\ arg.given) =>
        /\ (DOMAIN arg.value = MetricSet /\ ~InTolerance(SumVals(arg.value))) =>
              /\ lastErr.type = "ValueError"
              /\ lastErr.kind = "sum"
              /\ lastErr.shown * 10 - SumVals(arg.value) \in -5..5
        /\ DOMAIN arg.value # MetricSet =>
              /\ lastErr.type = "ValueError"
              /\ lastErr.kind = "keys"
              /\ lastErr.missing = MetricSet \ DOMAIN arg.value
              /\ lastErr.extra = DOMAIN arg.value \ MetricSet

\* set_weights refused four keys with a negative value and a sum out of range
C5_Witness ==
    /\ lastOp = "set_weights" /\ arg.given
    /\ DOMAIN arg.value = MetricSet
    /\ \E k \in MetricSet : arg.value[k] < 0
    /\ ~InTolerance(SumVals(arg.value))
    /\ lastErr.type = "ValueError"

\* C9: 'overall' is in scores only if the four component keys are;
\* overall_score computes exactly the absent components, keeps the cached
\* values and leaves all five keys.
C9_OverallAfterComponents ==
    /\ []("overall" \in DOMAIN scores => MetricSet \subseteq DOMAIN scores)
    /\ [][lastOp' = "overall_score" =>
              /\ calls' = MetricSet \ DOMAIN scores
              /\ \A m \in MetricSet \cap DOMAIN scores : scores'[m] = scores[m]
              /\ DOMAIN scores' = MetricSet \cup {"overall"}]_vars

\* overall_score found some components cached and computed the others
C9_Witness ==
    /\ lastOp = "overall_score"
    /\ calls # {} /\ calls # MetricSet

---------------------------------------------------------------------------
(* Properties of DataLoader *)

Accessors == {"peek", "detect_types"}

\* C6: peek() and detect_types() raise RuntimeError, returning nothing, exactly
\* when no load() has succeeded before; after that they succeed, leave the
\* cached table alone, and return again what they returned since that load.
C6_AccessorsNeedLoad ==
    /\ [](lastOp \in Accessors =>
            /\ lastErr.type = "RuntimeError" <=> ~everLoaded
            /\ lastErr.type \in {"None", "RuntimeError"}
            /\ lastErr.type = "RuntimeError" <=> result.type = "None")
    /\ [][lastOp' \in Accessors => df' = df]_vars
    /\ [][(lastOp' \in Accessors /\ seen[lastOp'].type # "None") =>
              (lastErr'.type = "None" /\ result' = seen[lastOp'])]_vars

\* a peek() that succeeded again after a later load() had failed
C6_Witness ==
    /\ lastOp = "peek" /\ lastErr.type = "None"
    /\ ~file.ok
    /\ Len(result.rows) > 0

---------------------------------------------------------------------------
(* Properties of Narrator *)

\* C7: generate() ends with the overall-quality sentence, its only one, whose
\* verdict is Excellent from 90 up, Good from 75, Fair from 50, Poor below.
C7_ClosingVerdict ==
    lastOp = "generate" =>
        /\ Len(text) >= 1
        /\ \A i \in 1..Len(text) : text[i].kind = "overall" <=> i = Len(text)
        /\ "overall" \in DOMAIN n_scores =>
              LET overall == n_scores["overall"]
                  verdict == text[Len(text)].verdict
              IN  /\ overall >= 90 * NUnit => verdict = "Excellent"
                  /\ (75 * NUnit <= overall /\ overall < 90 * NUnit) => verdict = "Good"
                  /\ (50 * NUnit <= overall /\ overall < 75 * NUnit) => verdict = "Fair"
                  /\ overall < 50 * NUnit => verdict = "Poor"

\* a narrative of several sentences for a score on a band's lower boundary
C7_Witness ==
    /\ lastOp = "generate"
    /\ Len(text) > 2
    /\ "overall" \in DOMAIN n_scores
    /\ n_scores["overall"] = 75 * NUnit

---------------------------------------------------------------------------
(* Properties of DatasetPipeline *)

ColumnsOf(dtype) == {c \in DOMAIN dataset.cols : dataset.cols[c].dtype = dtype}

\* C8: when both analyzers have run, the merged EDA results hold the summary
\* entry of every numeric and of every textual column.
C8_MergeKeepsEveryColumn ==
    pipeline.state = "done" =>
        ColumnsOf("number") \cup ColumnsOf("object")
            \subseteq DOMAIN pipeline.eda_results["summary"]

FixedScores ==
    [missing |-> Points(100), duplicates |-> Points(100), outliers |-> Points(100),
     balance |-> Points(90), overall |-> (975 * ScoreUnit) \div 10]

ScoredAsFixed ==
    /\ DOMAIN pipeline.eda_results = {"summary"}
    /\ pipeline.scores = FixedScores
    /\ pipeline.narrative[Len(pipeline.narrative)].kind = "overall"
    /\ pipeline.narrative[Len(pipeline.narrative)].verdict = "Excellent"

\* C10, as claimed: for every dataset that loads, run() leaves EDA results
\* with the one key 'summary', the scores 100, 100, 100, 90 and 97.5, and the
\* verdict Excellent.
C10_EveryLoadedDatasetScored ==
    (dataset.ok /\ pipeline.state # "new") =>
        (pipeline.state = "done" /\ ScoredAsFixed)

\* C10, amended: run() reaches the scorer exactly for the datasets that load
\* and hold both a numeric and a textual column, and for those the results
\* are these; for the other datasets that load describe() raises ValueError
\* and no score exists.
C10_ScoredDatasetsFixed ==
    /\ pipeline.state = "done" =>
          /\ dataset.ok /\ ColumnsOf("number") # {} /\ ColumnsOf("object") # {}
          /\ ScoredAsFixed
    /\ (pipeline.state = "failed" /\ dataset.ok) =>
          /\ ColumnsOf("number") = {} \/ ColumnsOf("object") = {}
          /\ pipeline.err.type = "ValueError"
          /\ pipeline.at \in {"numeric", "categorical"}

\* a run over numeric and textual data of MaxLen rows
C10_Witness ==
    /\ pipeline.state = "done"
    /\ dataset.len = MaxLen
    /\ ColumnsOf("number") # {}
    /\ pipeline.scores["overall"] = (975 * ScoreUnit) \div 10

=============================================================================
